---------------------------- MODULE Spec2Model ----------------------------
(***************************************************************************)
(* HomonymsLibrary (src/py_homonyms/homonyms_library.py): two collections  *)
(* of word groups, the two reverse indexes built from them at construction *)
(* and the query methods that read the indexes.                            *)
(*                                                                         *)
(* A Python str is a sequence of one-character strings, so that lower()    *)
(* and strip() are computed character by character.  A Python set object   *)
(* handed to the caller is a reference: either one of the index's own      *)
(* entries or a set created by the call.                                   *)
(***************************************************************************)
EXTENDS Integers, Sequences, FiniteSets, TLC

VARIABLES
    homograph_groups,    \* self.homograph_groups : List[Set[str]]
    homophone_groups,    \* self.homophone_groups : List[Set[str]]
    word_to_homographs,  \* self.word_to_homographs : Dict[str, Set[str]]
    word_to_homophones,  \* self.word_to_homophones : Dict[str, Set[str]]
    call,                \* the call whose result the caller holds: [op, args]
    ret,                 \* the result the caller holds: [kind, value]
    mutations            \* how often the caller changed a returned set

vars ==
    <<homograph_groups, homophone_groups, word_to_homographs,
      word_to_homophones, call, ret, mutations>>

fields == <<homograph_groups, homophone_groups, word_to_homographs, word_to_homophones>>

\* The library object, as the methods see it.
self ==
    [homograph_groups |-> homograph_groups,
     homophone_groups |-> homophone_groups,
     word_to_homographs |-> word_to_homographs,
     word_to_homophones |-> word_to_homophones]

(***************************************************************************)
(* Bounds of the model.                                                    *)
(***************************************************************************)
\* Whitespace characters put before and after a query word.
MaxPad == 1
\* Groups in a fixture data source.
MaxGroups == 2
\* Words in one fixture group.
MaxGroupSize == 2
\* Changes the caller makes to returned sets.
MaxMutations == 2

Range(f) == {f[i] : i \in DOMAIN f}

(***************************************************************************)
(* str.lower() and str.strip()                                             *)
(***************************************************************************)
UpperCase ==
    <<"A", "B", "C", "D", "E", "F", "G", "H", "I", "J", "K", "L", "M",
      "N", "O", "P", "Q", "R", "S", "T", "U", "V", "W", "X", "Y", "Z">>

LowerCase ==
    <<"a", "b", "c", "d", "e", "f", "g", "h", "i", "j", "k", "l", "m",
      "n", "o", "p", "q", "r", "s", "t", "u", "v", "w", "x", "y", "z">>

\* The characters str.strip() removes (ASCII).
Whitespace == {" ", "\t", "\n", "\r", "\f"}

lower_char(c) ==
    IF \E i \in DOMAIN UpperCase : UpperCase[i] = c
    THEN LowerCase[CHOOSE i \in DOMAIN UpperCase : UpperCase[i] = c]
    ELSE c

\* word.lower()
lower(word) == [i \in 1..Len(word) |-> lower_char(word[i])]

RECURSIVE lstrip(_)
lstrip(word) ==
    IF word # <<>> /\ Head(word) \in Whitespace THEN lstrip(Tail(word)) ELSE word

RECURSIVE rstrip(_)
rstrip(word) ==
    IF word # <<>> /\ word[Len(word)] \in Whitespace
    THEN rstrip(SubSeq(word, 1, Len(word) - 1))
    ELSE word

\* word.strip()
strip(word) == rstrip(lstrip(word))

(***************************************************************************)
(* The hard-coded data                                                     *)
(***************************************************************************)
_load_homographs ==
    <<
      {<<"b", "a", "n", "k">>, <<"b", "a", "n", "k">>},  \* financial institution vs river bank
      {<<"b", "a", "r", "k">>, <<"b", "a", "r", "k">>},  \* dog sound vs tree covering
      {<<"b", "a", "t">>, <<"b", "a", "t">>},  \* animal vs sports equipment
      {<<"b", "e", "a", "r">>, <<"b", "e", "a", "r">>},  \* animal vs to carry
      {<<"b", "o", "w">>, <<"b", "o", "w">>},  \* weapon vs to bend
      {<<"c", "l", "o", "s", "e">>, <<"c", "l", "o", "s", "e">>},  \* near vs to shut
      {<<"d", "o", "v", "e">>, <<"d", "o", "v", "e">>},  \* bird vs past tense of dive
      {<<"f", "a", "i", "r">>, <<"f", "a", "i", "r">>},  \* just vs carnival
      {<<"l", "e", "a", "d">>, <<"l", "e", "a", "d">>},  \* metal vs to guide
      {<<"l", "i", "v", "e">>, <<"l", "i", "v", "e">>},  \* to exist vs in real time
      {<<"m", "i", "n", "u", "t", "e">>, <<"m", "i", "n", "u", "t", "e">>},  \* time unit vs very small
      {<<"o", "b", "j", "e", "c", "t">>, <<"o", "b", "j", "e", "c", "t">>},  \* thing vs to protest
      {<<"p", "e", "r", "f", "e", "c", "t">>, <<"p", "e", "r", "f", "e", "c", "t">>},  \* flawless vs to make perfect
      {<<"p", "r", "e", "s", "e", "n", "t">>, <<"p", "r", "e", "s", "e", "n", "t">>, <<"p", "r", "e", "s", "e", "n", "t">>},  \* gift vs current time vs to show
      {<<"p", "r", "o", "d", "u", "c", "e">>, <<"p", "r", "o", "d", "u", "c", "e">>},  \* to create vs fruits/vegetables
      {<<"p", "r", "o", "j", "e", "c", "t">>, <<"p", "r", "o", "j", "e", "c", "t">>},  \* plan vs to extend outward
      {<<"q", "u", "a", "i", "l">>, <<"q", "u", "a", "i", "l">>},  \* cower vs bird
      {<<"r", "e", "a", "d">>, <<"r", "e", "a", "d">>},  \* present vs past tense
      {<<"r", "e", "c", "o", "r", "d">>, <<"r", "e", "c", "o", "r", "d">>},  \* to capture vs a disc/document
      {<<"r", "e", "f", "u", "s", "e">>, <<"r", "e", "f", "u", "s", "e">>},  \* to decline vs garbage
      {<<"s", "u", "b", "j", "e", "c", "t">>, <<"s", "u", "b", "j", "e", "c", "t">>},  \* topic vs to cause to experience
      {<<"t", "e", "a", "r">>, <<"t", "e", "a", "r">>},  \* to rip vs from crying
      {<<"w", "i", "n", "d">>, <<"w", "i", "n", "d">>},  \* air movement vs to turn
      {<<"w", "o", "u", "n", "d">>, <<"w", "o", "u", "n", "d">>}  \* injury vs past tense of wind
    >>

_load_homophones ==
    <<
      {<<"b", "a", "n", "k">>, <<"b", "a", "n", "k">>},  \* financial institution vs river bank
      {<<"b", "a", "r", "k">>, <<"b", "a", "r", "k">>},  \* dog sound vs tree covering
      {<<"b", "a", "t">>, <<"b", "a", "t">>},  \* animal vs sports equipment
      {<<"b", "e", "a", "r">>, <<"b", "e", "a", "r">>},  \* animal vs to carry
      {<<"f", "a", "i", "r">>, <<"f", "a", "i", "r">>},  \* just vs carnival
      {<<"p", "r", "e", "s", "e", "n", "t">>, <<"p", "r", "e", "s", "e", "n", "t">>},  \* a gift vs in the current time
      {<<"s", "u", "b", "j", "e", "c", "t">>, <<"s", "u", "b", "j", "e", "c", "t">>},  \* topic vs to cause to experience
      {<<"t", "e", "a", "r">>, <<"t", "e", "a", "r">>},  \* to rip vs from crying
      {<<"t", "o">>, <<"t", "o", "o">>, <<"t", "w", "o">>},
      {<<"t", "h", "e", "r", "e">>, <<"t", "h", "e", "i", "r">>, <<"t", "h", "e", "y", "'", "r", "e">>},
      {<<"h", "e", "a", "r">>, <<"h", "e", "r", "e">>},
      {<<"s", "e", "e">>, <<"s", "e", "a">>, <<"c">>},
      {<<"r", "i", "g", "h", "t">>, <<"w", "r", "i", "t", "e">>, <<"r", "i", "t", "e">>},
      {<<"k", "n", "o", "w">>, <<"n", "o">>},
      {<<"o", "n", "e">>, <<"w", "o", "n">>},
      {<<"f", "o", "u", "r">>, <<"f", "o", "r">>, <<"f", "o", "r", "e">>},
      {<<"e", "i", "g", "h", "t">>, <<"a", "t", "e">>},
      {<<"b", "u", "y">>, <<"b", "y">>, <<"b", "y", "e">>},
      {<<"c", "e", "l", "l">>, <<"s", "e", "l", "l">>},
      {<<"d", "e", "a", "r">>, <<"d", "e", "e", "r">>},
      {<<"f", "l", "o", "u", "r">>, <<"f", "l", "o", "w", "e", "r">>},
      {<<"h", "o", "l", "e">>, <<"w", "h", "o", "l", "e">>},
      {<<"k", "n", "i", "g", "h", "t">>, <<"n", "i", "g", "h", "t">>},
      {<<"m", "a", "i", "l">>, <<"m", "a", "l", "e">>},
      {<<"p", "a", "l", "e">>, <<"p", "a", "i", "l">>},
      {<<"p", "e", "a", "c", "e">>, <<"p", "i", "e", "c", "e">>},
      {<<"p", "l", "a", "i", "n">>, <<"p", "l", "a", "n", "e">>},
      {<<"q", "u", "a", "i", "l">>, <<"q", "u", "a", "i", "l">>},  \* cower vs bird
      {<<"r", "a", "i", "n">>, <<"r", "e", "i", "g", "n">>, <<"r", "e", "i", "n">>},
      {<<"r", "o", "a", "d">>, <<"r", "o", "d", "e">>},
      {<<"s", "a", "i", "l">>, <<"s", "a", "l", "e">>},
      {<<"s", "o", "n">>, <<"s", "u", "n">>},
      {<<"t", "a", "i", "l">>, <<"t", "a", "l", "e">>},
      {<<"w", "a", "i", "t">>, <<"w", "e", "i", "g", "h", "t">>},
      {<<"w", "e", "a", "k">>, <<"w", "e", "e", "k">>},
      {<<"w", "e", "a", "r">>, <<"w", "h", "e", "r", "e">>},
      {<<"w", "o", "o", "d">>, <<"w", "o", "u", "l", "d">>},
      {<<"y", "o", "u", "r">>, <<"y", "o", "u", "'", "r", "e">>},
      {<<"b", "r", "e", "a", "k">>, <<"b", "r", "a", "k", "e">>},
      {<<"c", "e", "n", "t">>, <<"s", "c", "e", "n", "t">>, <<"s", "e", "n", "t">>},
      {<<"c", "i", "t", "e">>, <<"s", "i", "g", "h", "t">>, <<"s", "i", "t", "e">>},
      {<<"f", "a", "i", "r">>, <<"f", "a", "r", "e">>},
      {<<"f", "l", "e", "a">>, <<"f", "l", "e", "e">>},
      {<<"g", "r", "o", "w", "n">>, <<"g", "r", "o", "a", "n">>},
      {<<"h", "e", "a", "l">>, <<"h", "e", "e", "l">>},
      {<<"m", "e", "a", "t">>, <<"m", "e", "e", "t">>},
      {<<"p", "a", "i", "r">>, <<"p", "e", "a", "r">>},
      {<<"p", "r", "i", "n", "c", "i", "p", "a", "l">>, <<"p", "r", "i", "n", "c", "i", "p", "l", "e">>},
      {<<"r", "o", "l", "l">>, <<"r", "o", "l", "e">>},
      {<<"s", "t", "e", "a", "l">>, <<"s", "t", "e", "e", "l">>},
      {<<"t", "h", "r", "e", "w">>, <<"t", "h", "r", "o", "u", "g", "h">>},
      {<<"t", "i", "e", "d">>, <<"t", "i", "d", "e">>},
      {<<"w", "a", "s", "t", "e">>, <<"w", "a", "i", "s", "t">>}
    >>

(***************************************************************************)
(* _build_reverse_index                                                    *)
(***************************************************************************)
\* index[key].update(items) on a defaultdict(set): a missing key is created.
defaultdict_update(index, key, items) ==
    IF key \in DOMAIN index
    THEN [index EXCEPT ![key] = @ \cup items]
    ELSE index @@ (key :> items)

\* for word in group: index[word.lower()].update(...)
RECURSIVE index_words(_, _, _, _)
index_words(index, group, todo, keep_identical) ==
    IF todo = {} THEN index
    ELSE LET word == CHOOSE w \in todo : TRUE
             items == {lower(w) : w \in {v \in group :
                          keep_identical \/ lower(v) # lower(word)}}
         IN index_words(defaultdict_update(index, lower(word), items),
                        group, todo \ {word}, keep_identical)

\* for group in groups: ...  (loop carries the dict built so far and the position)
RECURSIVE index_groups(_, _, _)
index_groups(loop, groups, keep_identical) ==
    IF loop.i > Len(groups) THEN loop.index
    ELSE index_groups(
             [index |-> index_words(loop.index, groups[loop.i], groups[loop.i],
                                    keep_identical),
              i |-> loop.i + 1],
             groups, keep_identical)

\* A variant that files each group under one of its words only.
_build_reverse_index_one_word_per_group(groups, keep_identical) ==
    LET filed == {group \in Range(groups) : group # {}}
        first(group) == lower(CHOOSE w \in group : TRUE)
    IN [key \in {first(group) : group \in filed} |->
           UNION {{lower(w) : w \in group} :
                     group \in {g \in filed : first(g) = key}}]

_build_reverse_index(groups, keep_identical) ==
    index_groups([index |-> <<>>, i |-> 1], groups, keep_identical)

(***************************************************************************)
(* Set objects handed to the caller                                        *)
(***************************************************************************)
\* The set object stored in an index under key: dict.get found the key.
IndexRef(name, key) == [obj |-> name, key |-> key, val |-> {}]

\* A set object created by the call, holding items.
FreshRef(items) == [obj |-> "fresh", key |-> <<>>, val |-> items]

\* The contents of the set object a reference points to.
Deref(lib, ref) ==
    IF ref.obj = "word_to_homographs" THEN lib.word_to_homographs[ref.key]
    ELSE IF ref.obj = "word_to_homophones" THEN lib.word_to_homophones[ref.key]
    ELSE ref.val

(***************************************************************************)
(* The query methods, as functions of the library object                   *)
(***************************************************************************)
\* A variant without the lookup: any two equal words are homographs.
are_homographs_without_lookup(lib, word1, word2) ==
    strip(lower(word1)) = strip(lower(word2))

\* A variant that looks both words up and does not compare them.
are_homographs_without_comparison(lib, word1, word2) ==
    /\ strip(lower(word1)) \in DOMAIN lib.word_to_homographs
    /\ strip(lower(word2)) \in DOMAIN lib.word_to_homographs

are_homographs(lib, word1, word2) ==
    LET cleaned_word1 == strip(lower(word1))
        cleaned_word2 == strip(lower(word2))
    IN cleaned_word1 = cleaned_word2
         /\ cleaned_word1 \in DOMAIN lib.word_to_homographs

\* A variant that cleans its inputs as _build_reverse_index does: lower() only.
are_homophones_without_strip(lib, word1, word2) ==
    lower(word2) \in (IF lower(word1) \in DOMAIN lib.word_to_homophones
                      THEN lib.word_to_homophones[lower(word1)]
                      ELSE {})

are_homophones(lib, word1, word2) ==
    LET cleaned_word1 == strip(lower(word1))
        cleaned_word2 == strip(lower(word2))
    IN cleaned_word2 \in (IF cleaned_word1 \in DOMAIN lib.word_to_homophones
                          THEN lib.word_to_homophones[cleaned_word1]
                          ELSE {})

are_homonyms(lib, word1, word2) ==
    are_homographs(lib, word1, word2) \/ are_homophones(lib, word1, word2)

\* self.word_to_homographs.get(cleaned_word, set())
get_homographs(lib, word) ==
    LET cleaned_word == strip(lower(word))
    IN IF cleaned_word \in DOMAIN lib.word_to_homographs
       THEN IndexRef("word_to_homographs", cleaned_word)
       ELSE FreshRef({})

\* self.word_to_homophones.get(cleaned_word, set())
get_homophones(lib, word) ==
    LET cleaned_word == strip(lower(word))
    IN IF cleaned_word \in DOMAIN lib.word_to_homophones
       THEN IndexRef("word_to_homophones", cleaned_word)
       ELSE FreshRef({})

\* A variant whose "all" holds what the two sets share.
get_all_homonyms_intersection(lib, word) ==
    LET homographs == get_homographs(lib, word)
        homophones == get_homophones(lib, word)
        all == FreshRef(Deref(lib, homographs) \cap Deref(lib, homophones))
    IN [homographs |-> homographs, homophones |-> homophones, all |-> all]

get_all_homonyms(lib, word) ==
    LET homographs == get_homographs(lib, word)
        homophones == get_homophones(lib, word)
        all == FreshRef(Deref(lib, homographs) \cup Deref(lib, homophones))
    IN [homographs |-> homographs, homophones |-> homophones, all |-> all]

get_statistics(lib) ==
    [homograph_groups |-> Len(lib.homograph_groups),
     homophone_groups |-> Len(lib.homophone_groups),
     total_homographic_words |-> Cardinality(DOMAIN lib.word_to_homographs),
     total_homophonic_words |-> Cardinality(DOMAIN lib.word_to_homophones)]

(***************************************************************************)
(* Construction                                                            *)
(***************************************************************************)
\* A variant of __init__ that builds the indexes with keep_identical=False.
HomonymsLibrary_without_identical(homographs, homophones) ==
    [homograph_groups |-> homographs,
     homophone_groups |-> homophones,
     word_to_homographs |-> _build_reverse_index(homographs, FALSE),
     word_to_homophones |-> _build_reverse_index(homophones, FALSE)]

\* __init__, given what the two loaders return.
HomonymsLibrary(homographs, homophones) ==
    [homograph_groups |-> homographs,
     homophone_groups |-> homophones,
     word_to_homographs |-> _build_reverse_index(homographs, TRUE),
     word_to_homophones |-> _build_reverse_index(homophones, TRUE)]

\* The library as __init__ leaves it.
Constructed == HomonymsLibrary(_load_homographs, _load_homophones)

NoCall == [op |-> "none", args |-> <<>>]

NoResult == [kind |-> "None", value |-> <<>>]

\* The caller holds a freshly constructed library lib and no result.
Start(lib) ==
    /\ homograph_groups = lib.homograph_groups
    /\ homophone_groups = lib.homophone_groups
    /\ word_to_homographs = lib.word_to_homographs
    /\ word_to_homophones = lib.word_to_homophones
    /\ call = NoCall
    /\ ret = NoResult
    /\ mutations = 0

Init == Start(Constructed)

(***************************************************************************)
(* One action per method call.  The caller calls when it holds no result   *)
(* (Idle); Release is the caller dropping the result it holds.             *)
(***************************************************************************)
Idle == call = NoCall

Call_are_homographs(word1, word2) ==
    /\ call' = [op |-> "are_homographs", args |-> <<word1, word2>>]
    /\ ret' = [kind |-> "bool", value |-> are_homographs(self, word1, word2)]
    /\ UNCHANGED <<fields, mutations>>

Call_are_homophones(word1, word2) ==
    /\ call' = [op |-> "are_homophones", args |-> <<word1, word2>>]
    /\ ret' = [kind |-> "bool", value |-> are_homophones(self, word1, word2)]
    /\ UNCHANGED <<fields, mutations>>

Call_are_homonyms(word1, word2) ==
    /\ call' = [op |-> "are_homonyms", args |-> <<word1, word2>>]
    /\ ret' = [kind |-> "bool", value |-> are_homonyms(self, word1, word2)]
    /\ UNCHANGED <<fields, mutations>>

Call_get_homographs(word) ==
    /\ call' = [op |-> "get_homographs", args |-> <<word>>]
    /\ ret' = [kind |-> "set", value |-> [result |-> get_homographs(self, word)]]
    /\ UNCHANGED <<fields, mutations>>

\* A variant that reads the index as a defaultdict, self.word_to_homophones[cleaned_word]:
\* a missing key is created with an empty set.
Call_get_homophones_defaultdict(word) ==
    LET cleaned_word == strip(lower(word))
    IN /\ call' = [op |-> "get_homophones", args |-> <<word>>]
       /\ word_to_homophones' = defaultdict_update(word_to_homophones, cleaned_word, {})
       /\ ret' = [kind |-> "set",
                  value |-> [result |-> IndexRef("word_to_homophones", cleaned_word)]]
       /\ UNCHANGED <<homograph_groups, homophone_groups, word_to_homographs, mutations>>

Call_get_homophones(word) ==
    /\ call' = [op |-> "get_homophones", args |-> <<word>>]
    /\ ret' = [kind |-> "set", value |-> [result |-> get_homophones(self, word)]]
    /\ UNCHANGED <<fields, mutations>>

Call_get_all_homonyms(word) ==
    /\ call' = [op |-> "get_all_homonyms", args |-> <<word>>]
    /\ ret' = [kind |-> "dict", value |-> get_all_homonyms(self, word)]
    /\ UNCHANGED <<fields, mutations>>

Call_get_statistics ==
    /\ call' = [op |-> "get_statistics", args |-> <<>>]
    /\ ret' = [kind |-> "stats", value |-> get_statistics(self)]
    /\ UNCHANGED <<fields, mutations>>

Release ==
    /\ call # NoCall
    /\ call' = NoCall
    /\ ret' = NoResult
    /\ UNCHANGED <<fields, mutations>>

(***************************************************************************)
(* The caller changing a set it was handed: set.add and set.discard act on *)
(* the object the reference points to.                                     *)
(***************************************************************************)
\* The named sets of the result the caller holds.
Held == IF ret.kind \in {"set", "dict"} THEN DOMAIN ret.value ELSE {}

\* The set object behind ref now holds items.
Store(slot, items) ==
    LET ref == ret.value[slot]
    IN /\ word_to_homographs' =
              IF ref.obj = "word_to_homographs"
              THEN [word_to_homographs EXCEPT ![ref.key] = items]
              ELSE word_to_homographs
       /\ word_to_homophones' =
              IF ref.obj = "word_to_homophones"
              THEN [word_to_homophones EXCEPT ![ref.key] = items]
              ELSE word_to_homophones
       /\ ret' =
              IF ref.obj = "fresh"
              THEN [ret EXCEPT !.value[slot].val = items]
              ELSE ret
       /\ UNCHANGED <<homograph_groups, homophone_groups, call>>

Caller_add(slot, word) ==
    /\ slot \in Held
    /\ mutations < MaxMutations
    /\ mutations' = mutations + 1
    /\ Store(slot, Deref(self, ret.value[slot]) \cup {word})

Caller_discard(slot, word) ==
    /\ slot \in Held
    /\ mutations < MaxMutations
    /\ mutations' = mutations + 1
    /\ Store(slot, Deref(self, ret.value[slot]) \ {word})

(***************************************************************************)
(* Query inputs: words of the data and unknown ones, as written, with a    *)
(* capital first letter, and with whitespace before and after.             *)
(***************************************************************************)
ProbeWords ==
    { <<"b", "a", "n", "k">>,       \* in both indexes
      <<"l", "e", "a", "d">>,       \* a homograph only
      <<"t", "o">>,                 \* homophones of different spelling
      <<"t", "o", "o">>,
      <<"f", "a", "i", "r">>,       \* in two homophone groups
      <<"f", "a", "r", "e">>,
      <<"x", "y", "z", "z", "y">> } \* in no group

upper_char(c) ==
    IF \E i \in DOMAIN LowerCase : LowerCase[i] = c
    THEN UpperCase[CHOOSE i \in DOMAIN LowerCase : LowerCase[i] = c]
    ELSE c

Capitalized(word) ==
    IF word = <<>> THEN word ELSE <<upper_char(Head(word))>> \o Tail(word)

Spaces(n) == [i \in 1..n |-> " "]

Newlines(n) == [i \in 1..n |-> "\n"]

Variants(word) ==
    {Spaces(l) \o w \o Newlines(r) :
        w \in {word, Capitalized(word)}, l \in 0..MaxPad, r \in 0..MaxPad}

Inputs == UNION {Variants(word) : word \in ProbeWords}

Next ==
    \/ Idle /\ \E word1 \in Inputs, word2 \in Inputs :
          Call_are_homographs(word1, word2)
    \/ Idle /\ \E word1 \in Inputs, word2 \in Inputs :
          Call_are_homophones(word1, word2)
    \/ Idle /\ \E word1 \in Inputs, word2 \in Inputs :
          Call_are_homonyms(word1, word2)
    \/ Idle /\ \E word \in Inputs : Call_get_homographs(word)
    \/ Idle /\ \E word \in Inputs : Call_get_homophones(word)
    \/ Idle /\ \E word \in Inputs : Call_get_all_homonyms(word)
    \/ Idle /\ Call_get_statistics
    \/ Release

Spec == Init /\ [][Next]_vars

(***************************************************************************)
(* A caller that also changes the sets it is handed.                       *)
(***************************************************************************)
\* What the caller adds to or discards from a set.
MutationWords == { <<"t", "o", "o">>, <<"x", "y", "z", "z", "y">> }

NextCaller ==
    \/ Idle /\ \E word1 \in ProbeWords, word2 \in ProbeWords :
          Call_are_homographs(word1, word2)
    \/ Idle /\ \E word1 \in ProbeWords, word2 \in ProbeWords :
          Call_are_homophones(word1, word2)
    \/ Idle /\ \E word1 \in ProbeWords, word2 \in ProbeWords :
          Call_are_homonyms(word1, word2)
    \/ Idle /\ \E word \in ProbeWords : Call_get_homographs(word)
    \/ Idle /\ \E word \in ProbeWords : Call_get_homophones(word)
    \/ Idle /\ \E word \in ProbeWords : Call_get_all_homonyms(word)
    \/ Idle /\ Call_get_statistics
    \/ Release
    \/ \E slot \in Held, word \in MutationWords : Caller_add(slot, word)
    \/ \E slot \in Held, word \in MutationWords : Caller_discard(slot, word)

SpecCaller == Init /\ [][NextCaller]_vars

(***************************************************************************)
(* A library constructed over a fixture data source: both loaders return   *)
(* the same list of groups of raw words.                                   *)
(***************************************************************************)
FixtureWords ==
    { <<"a">>, <<"A">>, <<" ", "a">>, <<"b">>, <<"c">> }

FixtureGroups ==
    {group \in SUBSET FixtureWords :
        Cardinality(group) >= 1 /\ Cardinality(group) <= MaxGroupSize}

FixtureGroupLists == UNION {[1..n -> FixtureGroups] : n \in 0..MaxGroups}

InitFixture == \E groups \in FixtureGroupLists : Start(HomonymsLibrary(groups, groups))

NextFixture ==
    \/ Idle /\ \E word1 \in FixtureWords, word2 \in FixtureWords :
          Call_are_homographs(word1, word2)
    \/ Idle /\ \E word1 \in FixtureWords, word2 \in FixtureWords :
          Call_are_homophones(word1, word2)
    \/ Idle /\ \E word1 \in FixtureWords, word2 \in FixtureWords :
          Call_are_homonyms(word1, word2)
    \/ Idle /\ \E word \in FixtureWords : Call_get_homographs(word)
    \/ Idle /\ \E word \in FixtureWords : Call_get_homophones(word)
    \/ Idle /\ \E word \in FixtureWords : Call_get_all_homonyms(word)
    \/ Idle /\ Call_get_statistics
    \/ Release

SpecFixture == InitFixture /\ [][NextFixture]_vars

(***************************************************************************)
(* Normalization as the specification words it: the lowercased word from   *)
(* its first to its last non-whitespace character.                         *)
(***************************************************************************)
Normalized(word) ==
    LET lowered == [i \in 1..Len(word) |-> lower_char(word[i])]
        solid == {i \in 1..Len(word) : lowered[i] \notin Whitespace}
    IN IF solid = {} THEN <<>>
       ELSE SubSeq(lowered,
                   CHOOSE i \in solid : \A j \in solid : i <= j,
                   CHOOSE i \in solid : \A j \in solid : j <= i)

IsNormalized(word) == word = Normalized(word)

\* What the call c returns on the library lib.
Answer(lib, c) ==
    CASE c.op = "are_homographs" ->
           [kind |-> "bool", value |-> are_homographs(lib, c.args[1], c.args[2])]
      [] c.op = "are_homophones" ->
           [kind |-> "bool", value |-> are_homophones(lib, c.args[1], c.args[2])]
      [] c.op = "are_homonyms" ->
           [kind |-> "bool", value |-> are_homonyms(lib, c.args[1], c.args[2])]
      [] c.op = "get_homographs" ->
           [kind |-> "set", value |-> [result |-> get_homographs(lib, c.args[1])]]
      [] c.op = "get_homophones" ->
           [kind |-> "set", value |-> [result |-> get_homophones(lib, c.args[1])]]
      [] c.op = "get_all_homonyms" ->
           [kind |-> "dict", value |-> get_all_homonyms(lib, c.args[1])]
      [] c.op = "get_statistics" ->
           [kind |-> "stats", value |-> get_statistics(lib)]
      [] OTHER -> NoResult

(***************************************************************************)
(* C1                                                                      *)
(***************************************************************************)
\* C1, as claimed: are_homographs(word1, word2) is true iff the normalized
\* words are equal and a key of the homograph index; and are_homographs(w, w)
\* is true for every w that is a key of the index and false for every w that
\* is not a key.
C1_AsClaimed ==
    call.op = "are_homographs" =>
        /\ ret.value <=>
              /\ Normalized(call.args[1]) = Normalized(call.args[2])
              /\ Normalized(call.args[1]) \in DOMAIN word_to_homographs
        /\ call.args[1] = call.args[2] =>
              (ret.value <=> call.args[1] \in DOMAIN word_to_homographs)

\* C1, amended: are_homographs(word1, word2) is true iff the normalized words
\* are equal and a key of the homograph index; and are_homographs(w, w) is
\* true for every w whose normalized form is a key of the index and false for
\* every w whose normalized form is not.
C1_HomographsIff ==
    call.op = "are_homographs" =>
        /\ ret.value <=>
              /\ Normalized(call.args[1]) = Normalized(call.args[2])
              /\ Normalized(call.args[1]) \in DOMAIN word_to_homographs
        /\ call.args[1] = call.args[2] =>
              (ret.value <=> Normalized(call.args[1]) \in DOMAIN word_to_homographs)

\* are_homographs(w, w) has returned true for a w that is not itself a key.
C1_Witness ==
    /\ call.op = "are_homographs"
    /\ call.args[1] = call.args[2]
    /\ call.args[1] \notin DOMAIN word_to_homographs
    /\ ret.value = TRUE

(***************************************************************************)
(* C2                                                                      *)
(***************************************************************************)
\* C2, as claimed: for all input words w1 # w2, are_homographs(w1, w2) is
\* false.
C2_AsClaimed ==
    (call.op = "are_homographs" /\ call.args[1] # call.args[2]) =>
        ret.value = FALSE

\* C2, amended: for all input words whose normalized forms differ,
\* are_homographs(w1, w2) is false.
C2_DifferentSpelling ==
    (call.op = "are_homographs"
        /\ Normalized(call.args[1]) # Normalized(call.args[2])) =>
        ret.value = FALSE

\* are_homographs has returned false for two different keys of the index.
C2_Witness ==
    /\ call.op = "are_homographs"
    /\ Normalized(call.args[1]) # Normalized(call.args[2])
    /\ Normalized(call.args[1]) \in DOMAIN word_to_homographs
    /\ Normalized(call.args[2]) \in DOMAIN word_to_homographs
    /\ ret.value = FALSE

(***************************************************************************)
(* C3                                                                      *)
(***************************************************************************)
\* C3: are_homophones is symmetric, for the index _build_reverse_index
\* produces from any list of groups: what are_homophones(w1, w2) returned is
\* what are_homophones(w2, w1) returns.
C3_HomophonesSymmetric ==
    call.op = "are_homophones" =>
        ret.value = are_homophones(self, call.args[2], call.args[1])

\* are_homophones has returned true for two different words, the first of
\* which is in two groups that do not hold the same words.
C3_Witness ==
    /\ call.op = "are_homophones"
    /\ Normalized(call.args[1]) # Normalized(call.args[2])
    /\ ret.value = TRUE
    /\ \E i, j \in DOMAIN homophone_groups :
          /\ homophone_groups[i] # homophone_groups[j]
          /\ call.args[1] \in homophone_groups[i] \cap homophone_groups[j]

(***************************************************************************)
(* C4                                                                      *)
(***************************************************************************)
\* C4: in both reverse indexes every key x maps to a set that contains x,
\* and are_homophones(x, x) is true for every key x of the homophone index.
C4_SelfInclusion ==
    /\ \A x \in DOMAIN word_to_homographs : x \in word_to_homographs[x]
    /\ \A x \in DOMAIN word_to_homophones : x \in word_to_homophones[x]
    /\ (call.op = "are_homophones"
          /\ call.args[1] = call.args[2]
          /\ call.args[1] \in DOMAIN word_to_homophones) => ret.value = TRUE

\* are_homophones(x, x) has returned for a key x of the homophone index
\* whose group holds other words too.
C4_Witness ==
    /\ call.op = "are_homophones"
    /\ call.args[1] = call.args[2]
    /\ call.args[1] \in DOMAIN word_to_homophones
    /\ word_to_homophones[call.args[1]] # {call.args[1]}
    /\ ret.value = TRUE

(***************************************************************************)
(* C5                                                                      *)
(***************************************************************************)
\* C5: are_homographs, are_homophones and are_homonyms return on
\* (word1, word2) what they return on the normalized words, and normalizing
\* a normalized word changes nothing.
C5_NormalizedInputs ==
    call.op \in {"are_homographs", "are_homophones", "are_homonyms"} =>
        LET normal == [call EXCEPT !.args = <<Normalized(call.args[1]),
                                              Normalized(call.args[2])>>]
        IN /\ ret = Answer(self, normal)
           /\ \A i \in 1..2 : strip(lower(normal.args[i])) = normal.args[i]
           /\ \A i \in 1..2 : Normalized(normal.args[i]) = normal.args[i]

\* are_homonyms has returned true for two different spellings of one word,
\* neither of them normalized.
C5_Witness ==
    /\ call.op = "are_homonyms"
    /\ call.args[1] # call.args[2]
    /\ ~IsNormalized(call.args[1])
    /\ ~IsNormalized(call.args[2])
    /\ Head(call.args[1]) \in Whitespace
    /\ ret.value = TRUE

(***************************************************************************)
(* C6                                                                      *)
(***************************************************************************)
\* C6: get_all_homonyms(word) returns its three sets for every word, "all"
\* is the union of what get_homographs(word) and get_homophones(word)
\* return, and for a word in neither index the three sets are empty.
C6_AllIsUnion ==
    call.op = "get_all_homonyms" =>
        LET word == call.args[1]
            homographs == Deref(self, get_homographs(self, word))
            homophones == Deref(self, get_homophones(self, word))
        IN /\ ret.kind = "dict"
           /\ DOMAIN ret.value = {"homographs", "homophones", "all"}
           /\ Deref(self, ret.value.all) = homographs \cup homophones
           /\ (Normalized(word) \notin DOMAIN word_to_homographs
                 /\ Normalized(word) \notin DOMAIN word_to_homophones) =>
                 \A slot \in DOMAIN ret.value : Deref(self, ret.value[slot]) = {}

\* get_all_homonyms has returned for a word whose homographs and homophones
\* differ, neither being empty.
C6_Witness ==
    /\ call.op = "get_all_homonyms"
    /\ Deref(self, ret.value.homographs) # {}
    /\ Deref(self, ret.value.homophones) # Deref(self, ret.value.homographs)
    /\ Deref(self, ret.value.all) = Deref(self, ret.value.homophones)

(***************************************************************************)
(* C7                                                                      *)
(***************************************************************************)
\* C7: after any sequence of query calls the two group lists and the two
\* indexes are what construction made them, and the result of a call is the
\* result of that call on the library as constructed.
C7_ReadOnly ==
    /\ homograph_groups = _load_homographs
    /\ homophone_groups = _load_homophones
    /\ word_to_homographs = Constructed.word_to_homographs
    /\ word_to_homophones = Constructed.word_to_homophones
    /\ ret = Answer(Constructed, call)

\* get_homophones has returned the empty set for a word that is no key.
C7_Witness ==
    /\ call.op = "get_homophones"
    /\ Normalized(call.args[1]) \notin DOMAIN Constructed.word_to_homophones
    /\ Deref(self, ret.value.result) = {}

(***************************************************************************)
(* C8                                                                      *)
(***************************************************************************)
\* C8: every key of an index _build_reverse_index produced, and every member
\* of every set in it, is lowercased and stripped, and a word stored from a
\* group is found when it is looked up.
C8_StoresNormalized ==
    /\ \A key \in DOMAIN word_to_homographs :
          /\ IsNormalized(key)
          /\ \A member \in word_to_homographs[key] : IsNormalized(member)
    /\ \A key \in DOMAIN word_to_homophones :
          /\ IsNormalized(key)
          /\ \A member \in word_to_homophones[key] : IsNormalized(member)
    /\ \A i \in DOMAIN homograph_groups : \A word \in homograph_groups[i] :
          Deref(self, get_homographs(self, word)) # {}
    /\ \A i \in DOMAIN homophone_groups : \A word \in homophone_groups[i] :
          Deref(self, get_homophones(self, word)) # {}

(***************************************************************************)
(* C9                                                                      *)
(***************************************************************************)
\* The normalized members of a group.
NormalizedGroup(group) == {Normalized(word) : word \in group}

\* index is the reverse index of groups: a normalized word that is in some
\* group maps to the union of the normalized members of the groups it is in,
\* and nothing else is a key.
IsUnionIndex(index, groups) ==
    LET known == UNION {NormalizedGroup(groups[i]) : i \in DOMAIN groups}
    IN /\ DOMAIN index = known
       /\ \A word \in known :
             index[word] =
                 UNION {NormalizedGroup(groups[i]) :
                          i \in {j \in DOMAIN groups : word \in NormalizedGroup(groups[j])}}

\* C9: the entry of a normalized word is exactly the union of the normalized
\* members of every group that contains the word, and a word that is in no
\* group is not a key.
C9_UnionOfGroups ==
    /\ IsUnionIndex(word_to_homographs, homograph_groups)
    /\ IsUnionIndex(word_to_homophones, homophone_groups)

(***************************************************************************)
(* C10                                                                     *)
(***************************************************************************)
\* C10: whatever the caller did to the sets it was handed, every query
\* returns what it returns on the library as constructed.
C10_ReturnedSetsIndependent ==
    /\ \A word1 \in ProbeWords, word2 \in ProbeWords :
          /\ are_homographs(self, word1, word2) = are_homographs(Constructed, word1, word2)
          /\ are_homophones(self, word1, word2) = are_homophones(Constructed, word1, word2)
    /\ \A word \in ProbeWords :
          /\ Deref(self, get_homographs(self, word))
                = Deref(Constructed, get_homographs(Constructed, word))
          /\ Deref(self, get_homophones(self, word))
                = Deref(Constructed, get_homophones(Constructed, word))
    /\ get_statistics(self) = get_statistics(Constructed)
====
